---- MODULE Spec2Model ----
(***************************************************************************)
(* GstOverlay (pympress/media_overlays/gst_backend.py): the playback       *)
(* controller around one GStreamer playbin, the tasks it puts on the GLib  *)
(* main loop (idle_add, timeout_add) and the bus events it subscribes to.  *)
(*                                                                         *)
(* A step of the model is one whole handler: a public method called on the *)
(* UI thread, one idle task, one tick of a recurring timeout, or the       *)
(* delivery of one bus message to the callback connected to it.  Every     *)
(* step leaves in `out` what it did to the outside world, in order: the    *)
(* commands it gave an engine object, the UI callbacks it made, what it    *)
(* scheduled, logged or raised.                                            *)
(***************************************************************************)
EXTENDS Integers, Sequences, FiniteSets, TLC

\* ---------------------------------------------------------------- bounds
MaxIdle == 1
MaxTimers == 2

\* ------------------------------------------------------------- constants
NoHandle == 0
PollIntervalMs == 200
NsPerSec == 1000000000

\* Names for the playbin objects that exist at one time: the one in
\* self.playbin and those a pending idle task still refers to.
Handles == 1..(MaxIdle + 1)
NoUri == "None"
Paths == {"/tmp/a.mp4", "/tmp/b.mp4"}
DurationResults == {-1, 0, 1500000000}
PositionResults == {-1, 200000000}
SeekTargets == {-1, 2}
MessageNames == {"prepare-window-handle", "have-context"}

VARIABLES
    playbin,    \* self.playbin: NoHandle (None) or the handle it holds
    muted,      \* self.muted
    uri,        \* self.uri
    engine,     \* the state of each playbin object, by handle
    idle,       \* GLib.idle_add: the pending one-shot tasks, first in first out
    timers,     \* GLib.timeout_add: how many recurring do_update_time sources
    lastOp,     \* the handler the last step ran
    out         \* what the last step did, in order

vars == <<playbin, muted, uri, engine, idle, timers, lastOp, out>>

\* ---------------------------------------------------------- what a step does
\* k: the kind of effect; name: the function called; h: the playbin it was
\* called on; slot: self.playbin at that moment; then the argument, in the
\* field of its type: s (a string), b (a bool), n (an integer, nanoseconds
\* or milliseconds), v (seconds).
Zero == [sec |-> 0, nano |-> 0]
Effect(k, name, h, slot, s, b, n, v) ==
    [k |-> k, name |-> name, h |-> h, slot |-> slot, s |-> s, b |-> b, n |-> n, v |-> v]
CmdS(h, slot, name, s) == Effect("cmd", name, h, slot, s, FALSE, 0, Zero)
CmdB(h, slot, name, b) == Effect("cmd", name, h, slot, "", b, 0, Zero)
CmdN(h, slot, name, n) == Effect("cmd", name, h, slot, "", FALSE, n, Zero)
Ui(name, v) == Effect("ui", name, NoHandle, NoHandle, "", FALSE, 0, v)
Query(h, name, n) == Effect("query", name, h, h, "", FALSE, n, Zero)
Sched(h, name, s, n) == Effect("sched", name, h, NoHandle, s, FALSE, n, Zero)
Raise(name) == Effect("raise", name, NoHandle, NoHandle, "", FALSE, 0, Zero)
Log(name) == Effect("log", name, NoHandle, NoHandle, "", FALSE, 0, Zero)
\* the message a handler was called with: its structure's name, its source,
\* and whether movie_zone.get_window() answered a window
Recv(h, name, hasWindow) == Effect("recv", name, h, NoHandle, "", hasWindow, 0, Zero)

\* a task given to idle_add: the function, its argument, and in h the
\* playbin it is bound to (set_mute, set_window_handle) or, for do_hide, the
\* playbin whose end of stream put it there
Task(fn, h, s, b) == [fn |-> fn, h |-> h, s |-> s, b |-> b]

\* ------------------------------------------------------------ pure helpers
Max0(n) == IF n > 0 THEN n ELSE 0

\* x / 1e9 as an exact value: whole seconds (floor) and the nanoseconds left.
NsToSec(ns) == [sec |-> ns \div NsPerSec, nano |-> ns % NsPerSec]

\* the argument of update_range
DurationToForward_noClamp(time_ns) == NsToSec(time_ns)
DurationToForward(time_ns) == NsToSec(Max0(time_ns))

\* the argument of update_progress
PositionToForward(time_ns) == NsToSec(time_ns)

\* the third argument of seek_simple
SeekPosition(t) == t * NsPerSec

FileUri_noScheme(filepath) == filepath
FileUri(filepath) == "file://" \o filepath

\* ----------------------------------------------------- the engine object
\* A playbin as Gst.ElementFactory.make returns it, and one that was set to
\* NULL: nothing the program does can tell two of those apart, so a playbin
\* set to NULL keeps no other state.
Fresh ==
    [alive |-> TRUE, cur |-> "NULL", pending |-> "NONE", mute |-> FALSE,
     asyncDone |-> FALSE, eos |-> FALSE]
Released == [Fresh EXCEPT !.alive = FALSE]

\* set_state: NULL is reached at once and ends the object's life; a change
\* from NULL, or during a change under way, completes later (async-done).
EngSetState(e, s) ==
    IF s = "NULL" THEN Released
    ELSE IF ~e.alive THEN e
    ELSE IF e.pending # "NONE" \/ e.cur = "NULL"
    THEN [e EXCEPT !.pending = s]
    ELSE [e EXCEPT !.cur = s]

\* seek_simple with FLUSH: a prerolled pipeline prerolls again.
EngSeek(e) ==
    IF e.cur \in {"PAUSED", "PLAYING"} /\ e.pending = "NONE"
    THEN [e EXCEPT !.pending = e.cur, !.cur = "PAUSED", !.eos = FALSE]
    ELSE e

ApplyCmd(e, c) ==
    CASE c.name = "set_state" -> EngSetState(e, c.s)
      [] c.name = "set_mute" -> IF e.alive THEN [e EXCEPT !.mute = c.b] ELSE e
      [] c.name = "seek_simple" -> EngSeek(e)
      [] OTHER -> e

RECURSIVE ApplyCmds(_, _)
ApplyCmds(e, cs) ==
    IF cs = <<>> THEN e ELSE ApplyCmds(ApplyCmd(e, Head(cs)), Tail(cs))

\* -------------------------------------------------------------- is_playing
IsPlayingOf(pb, eng) == pb # NoHandle /\ eng[pb].cur = "PLAYING"
is_playing == IsPlayingOf(playbin, engine)

\* A handle names a playbin object for as long as something refers to it:
\* self.playbin (while the pipeline is alive), a task on the main loop, or
\* the running pipeline itself.  ElementFactory.make returns an object that
\* is none of those.
InUse(eng, h) ==
    \/ eng[h].alive
    \/ \E i \in 1..Len(idle) : idle[i].h = h
NewHandle(eng) ==
    CHOOSE h \in Handles : ~InUse(eng, h) /\ \A g \in Handles : g < h => InUse(eng, g)

\* -------------------------------------------------------------------- Init
Init ==
    /\ playbin = NoHandle
    /\ muted = FALSE
    /\ uri = NoUri
    /\ engine = [h \in Handles |-> Released]
    /\ idle = <<>>
    /\ timers = 0
    /\ lastOp = "init"
    /\ out = <<>>

\* ------------------------------------------------------------ UI-thread API
set_file(filepath) ==
    /\ uri' = FileUri(filepath)
    /\ lastOp' = "set_file"
    /\ out' = <<>>
    /\ UNCHANGED <<playbin, muted, engine, idle, timers>>

mute_storeOnly(value) ==
    /\ muted' = value
    /\ out' = <<>>
    /\ lastOp' = "mute"
    /\ UNCHANGED <<playbin, uri, engine, idle, timers>>
mute(value) ==
    /\ muted' = value
    /\ IF playbin # NoHandle
       THEN /\ Len(idle) < MaxIdle
            /\ idle' = Append(idle, Task("set_mute", playbin, "", value))
            /\ out' = <<Sched(playbin, "idle_add", "set_mute", 0)>>
       ELSE /\ idle' = idle
            /\ out' = <<>>
    /\ lastOp' = "mute"
    /\ UNCHANGED <<playbin, uri, engine, timers>>

\* do_stop, as a function of the fields it reads
StopEffect_noGuard(pb, eng) ==
    IF pb = NoHandle
    THEN [playbin |-> pb, engine |-> eng, out |-> <<Raise("AttributeError")>>]
    ELSE [playbin |-> NoHandle,
          engine |-> [eng EXCEPT ![pb] = EngSetState(@, "NULL")],
          out |-> <<CmdS(pb, pb, "set_state", "NULL")>>]
StopEffect_keepsHandle(pb, eng) ==
    IF pb = NoHandle
    THEN [playbin |-> pb, engine |-> eng, out |-> <<>>]
    ELSE [playbin |-> pb,
          engine |-> [eng EXCEPT ![pb] = EngSetState(@, "NULL")],
          out |-> <<CmdS(pb, pb, "set_state", "NULL")>>]
StopEffect(pb, eng) ==
    IF pb = NoHandle
    THEN [playbin |-> pb, engine |-> eng, out |-> <<>>]
    ELSE [playbin |-> NoHandle,
          engine |-> [eng EXCEPT ![pb] = EngSetState(@, "NULL")],
          out |-> <<CmdS(pb, pb, "set_state", "NULL")>>]

do_stop ==
    LET s == StopEffect(playbin, engine) IN
    /\ playbin' = s.playbin
    /\ engine' = s.engine
    /\ out' = s.out
    /\ lastOp' = "do_stop"
    /\ UNCHANGED <<muted, uri, idle, timers>>

\* do_play, first part: an existing playbin is stopped
PlayTeardown_none(pb, eng) == [playbin |-> pb, engine |-> eng, out |-> <<>>]
PlayTeardown(pb, eng) ==
    IF pb # NoHandle
    THEN StopEffect(pb, eng)
    ELSE [playbin |-> pb, engine |-> eng, out |-> <<>>]

\* do_play, last part: what the new playbin is told, in order
NewHandleCommands_unmuted(h, u, m) ==
    << CmdS(h, h, "set_uri", u),
       CmdB(h, h, "set_mute", FALSE),
       CmdS(h, h, "set_state", "PLAYING") >>
NewHandleCommands(h, u, m) ==
    << CmdS(h, h, "set_uri", u),
       CmdB(h, h, "set_mute", m),
       CmdS(h, h, "set_state", "PLAYING") >>

do_play ==
    /\ LET s == PlayTeardown(playbin, engine)
           h == NewHandle(s.engine)
           cs == NewHandleCommands(h, uri, muted)
       IN /\ \E g \in Handles : ~InUse(s.engine, g)
          /\ playbin' = h
          /\ engine' = [s.engine EXCEPT ![h] = ApplyCmds(Fresh, cs)]
          /\ out' = s.out \o <<CmdS(h, NoHandle, "make", "playbin")>> \o cs
    /\ lastOp' = "do_play"
    /\ UNCHANGED <<muted, uri, idle, timers>>

\* the state do_play_pause asks for, given what is_playing() answered
ToggleTarget_alwaysPlay(playing) == "PLAYING"
ToggleTarget(playing) == IF ~playing THEN "PLAYING" ELSE "PAUSED"

do_play_pause ==
    /\ IF playbin # NoHandle
       THEN LET c == CmdS(playbin, playbin, "set_state", ToggleTarget(is_playing))
            IN /\ engine' = [engine EXCEPT ![playbin] = ApplyCmd(@, c)]
               /\ out' = <<c>>
       ELSE /\ engine' = engine
            /\ out' = <<>>
    /\ lastOp' = "do_play_pause"
    /\ UNCHANGED <<playbin, muted, uri, idle, timers>>

do_set_time(t) ==
    /\ IF playbin # NoHandle
       THEN LET c == CmdN(playbin, playbin, "seek_simple", SeekPosition(t))
            IN /\ engine' = [engine EXCEPT ![playbin] = ApplyCmd(@, c)]
               /\ out' = <<c>>
       ELSE /\ engine' = engine
            /\ out' = <<>>
    /\ lastOp' = "do_set_time"
    /\ UNCHANGED <<playbin, muted, uri, idle, timers>>

\* ------------------------------------------------------- bus subscriptions
\* message::eos
EosTasks(h) == <<Task("do_hide", h, "", FALSE)>>

\* message::duration-changed
DurationChangedTasks(h) == <<Task("do_update_duration", NoHandle, "", FALSE)>>

\* message::async-done, connected to on_play
OnPlayTasks(h) == <<Task("do_update_duration", NoHandle, "", FALSE)>>

\* sync-message::element, connected to on_sync_message
\* On either platform the handler gives idle_add a lambda that calls
\* msg.src.set_window_handle; the platform (IS_WINDOWS) decides only how
\* the lambda, when it runs, gets the value it passes.
SyncMessageEffect_noWindowCheck(h, name, hasWindow) ==
    IF name # "prepare-window-handle"
    THEN [tasks |-> <<>>, out |-> <<>>]
    ELSE [tasks |-> <<Task("set_window_handle", h, "", FALSE)>>,
          out |-> <<Sched(h, "idle_add", "set_window_handle", 0)>>]
SyncMessageEffect_direct(h, name, hasWindow) ==
    IF name # "prepare-window-handle"
    THEN [tasks |-> <<>>, out |-> <<>>]
    ELSE IF ~hasWindow
    THEN [tasks |-> <<>>, out |-> <<Log("No window in which to embed the Gst player!")>>]
    ELSE [tasks |-> <<>>, out |-> <<CmdS(h, h, "set_window_handle", "get_xid")>>]
SyncMessageEffect(h, name, hasWindow) ==
    IF name # "prepare-window-handle"
    THEN [tasks |-> <<>>, out |-> <<>>]
    ELSE IF ~hasWindow
    THEN [tasks |-> <<>>, out |-> <<Log("No window in which to embed the Gst player!")>>]
    ELSE [tasks |-> <<Task("set_window_handle", h, "", FALSE)>>,
          out |-> <<Sched(h, "idle_add", "set_window_handle", 0)>>]

\* message::error: the lambda logs the parsed error
ErrorEffect_hides(h) == [tasks |-> <<Task("do_hide", h, "", FALSE)>>, out |-> <<Log("error")>>]
ErrorEffect(h) == [tasks |-> <<>>, out |-> <<Log("error")>>]

WindowHandleArg(win) == IF win THEN "get_window_handle" ELSE "get_xid"

\* A message is delivered only for a playbin that was not set to NULL: the
\* pipeline flushes its bus when it goes to NULL.
Delivers(h) == engine[h].alive

EvEos(h) ==
    /\ Delivers(h)
    /\ engine[h].cur = "PLAYING" /\ engine[h].pending = "NONE" /\ ~engine[h].eos
    /\ Len(idle) + Len(EosTasks(h)) <= MaxIdle
    /\ engine' = [engine EXCEPT ![h].eos = TRUE]
    /\ idle' = idle \o EosTasks(h)
    /\ out' = [i \in 1..Len(EosTasks(h)) |-> Sched(h, "idle_add", EosTasks(h)[i].fn, 0)]
    /\ lastOp' = "on_eos"
    /\ UNCHANGED <<playbin, muted, uri, timers>>

EvError(h) ==
    /\ Delivers(h)
    /\ LET s == ErrorEffect(h)
       IN /\ Len(idle) + Len(s.tasks) <= MaxIdle
          /\ idle' = idle \o s.tasks
          /\ out' = s.out
    /\ lastOp' = "on_error"
    /\ UNCHANGED <<playbin, muted, uri, engine, timers>>

EvAsyncDone(h) ==
    /\ Delivers(h)
    /\ engine[h].pending # "NONE"
    /\ Len(idle) + Len(OnPlayTasks(h)) <= MaxIdle
    /\ timers < MaxTimers
    /\ engine' = [engine EXCEPT ![h].cur = engine[h].pending,
                                ![h].pending = "NONE",
                                ![h].asyncDone = TRUE]
    /\ idle' = idle \o OnPlayTasks(h)
    /\ timers' = timers + 1
    /\ out' = <<Sched(h, "idle_add", "do_update_duration", 0),
                Sched(h, "timeout_add", "do_update_time", PollIntervalMs)>>
    /\ lastOp' = "on_play"
    /\ UNCHANGED <<playbin, muted, uri>>

EvDurationChanged(h) ==
    /\ Delivers(h)
    /\ Len(idle) + Len(DurationChangedTasks(h)) <= MaxIdle
    /\ idle' = idle \o DurationChangedTasks(h)
    /\ out' = <<Sched(h, "idle_add", "do_update_duration", 0)>>
    /\ lastOp' = "on_duration_changed"
    /\ UNCHANGED <<playbin, muted, uri, engine, timers>>

\* hasWindow: movie_zone.get_window() is not None
EvSyncMessage(h, name, hasWindow) ==
    /\ Delivers(h)
    /\ LET s == SyncMessageEffect(h, name, hasWindow)
       IN /\ Len(idle) + Len(s.tasks) <= MaxIdle
          /\ idle' = idle \o s.tasks
          /\ out' = <<Recv(h, name, hasWindow)>> \o s.out
    /\ lastOp' = "on_sync_message"
    /\ UNCHANGED <<playbin, muted, uri, engine, timers>>

\* ------------------------------------------------------------- idle tasks
\* do_update_duration, as a function of self.playbin and the query's answer
DurationEffect(pb, time_ns) ==
    IF pb = NoHandle
    THEN <<Raise("AttributeError")>>
    ELSE <<Query(pb, "duration", time_ns),
           Ui("update_range", DurationToForward(time_ns))>>

IdleUpdateDuration ==
    /\ idle # <<>> /\ Head(idle).fn = "do_update_duration"
    /\ idle' = Tail(idle)
    /\ \E time_ns \in DurationResults : out' = DurationEffect(playbin, time_ns)
    /\ lastOp' = "do_update_duration"
    /\ UNCHANGED <<playbin, muted, uri, engine, timers>>

\* do_hide of the base class: do_stop, then the UI is told playback ended
HideEffect(pb, eng) ==
    LET s == StopEffect(pb, eng)
    IN [s EXCEPT !.out = s.out \o <<Ui("on_finished", 0)>>]

IdleHide ==
    /\ idle # <<>> /\ Head(idle).fn = "do_hide"
    /\ idle' = Tail(idle)
    /\ LET s == HideEffect(playbin, engine)
       IN /\ playbin' = s.playbin
          /\ engine' = s.engine
          /\ out' = s.out
    /\ lastOp' = "do_hide"
    /\ UNCHANGED <<muted, uri, timers>>

\* the bound method playbin.set_mute given to idle_add by mute()
IdleSetMute ==
    /\ idle # <<>> /\ Head(idle).fn = "set_mute"
    /\ idle' = Tail(idle)
    /\ LET c == CmdB(Head(idle).h, playbin, "set_mute", Head(idle).b)
       IN /\ engine' = [engine EXCEPT ![c.h] = ApplyCmd(@, c)]
          /\ out' = <<c>>
    /\ lastOp' = "idle_set_mute"
    /\ UNCHANGED <<playbin, muted, uri, timers>>

\* the lambda given to idle_add by on_sync_message; win: IS_WINDOWS
IdleSetWindowHandle ==
    /\ idle # <<>> /\ Head(idle).fn = "set_window_handle"
    /\ idle' = Tail(idle)
    /\ \E win \in BOOLEAN :
          LET c == CmdS(Head(idle).h, playbin, "set_window_handle", WindowHandleArg(win))
          IN /\ engine' = [engine EXCEPT ![c.h] = ApplyCmd(@, c)]
             /\ out' = <<c>>
    /\ lastOp' = "idle_set_window_handle"
    /\ UNCHANGED <<playbin, muted, uri, timers>>

\* ------------------------------------------------------ the recurring timer
\* do_update_time, as a function of self.playbin and the query's answer
UpdateTimeEffect_noCheck(pb, time_ns) ==
    [again |-> TRUE,
     out |-> <<Query(pb, "position", time_ns),
               Ui("update_progress", PositionToForward(time_ns))>>]
UpdateTimeEffect_cached(pb, time_ns) ==
    IF pb = NoHandle
    THEN [again |-> TRUE, out |-> <<>>]
    ELSE [again |-> TRUE,
          out |-> <<Query(pb, "position", time_ns),
                    Ui("update_progress", PositionToForward(time_ns))>>]
UpdateTimeEffect(pb, time_ns) ==
    IF pb = NoHandle
    THEN [again |-> FALSE, out |-> <<>>]
    ELSE [again |-> TRUE,
          out |-> <<Query(pb, "position", time_ns),
                    Ui("update_progress", PositionToForward(time_ns))>>]

Tick ==
    /\ timers > 0
    /\ \E time_ns \in PositionResults :
          LET s == UpdateTimeEffect(playbin, time_ns)
          IN /\ timers' = IF s.again THEN timers ELSE timers - 1
             /\ out' = s.out
    /\ lastOp' = "do_update_time"
    /\ UNCHANGED <<playbin, muted, uri, engine, idle>>

\* -------------------------------------------------------------------- Next
UiCall ==
    \/ \E p \in Paths : set_file(p)
    \/ \E v \in BOOLEAN : mute(v)
    \/ do_play
    \/ do_play_pause
    \/ do_stop
    \/ \E t \in SeekTargets : do_set_time(t)

BusEvent ==
    \/ \E h \in Handles : EvEos(h)
    \/ \E h \in Handles : EvError(h)
    \/ \E h \in Handles : EvAsyncDone(h)
    \/ \E h \in Handles : EvDurationChanged(h)
    \/ \E h \in Handles, n \in MessageNames, w \in BOOLEAN : EvSyncMessage(h, n, w)

IdleTask ==
    \/ IdleUpdateDuration
    \/ IdleHide
    \/ IdleSetMute
    \/ IdleSetWindowHandle

Next == UiCall \/ BusEvent \/ IdleTask \/ Tick

Spec == Init /\ [][Next]_vars

\* The main loop runs a pending idle task once nothing else is ready.
FairSpec == Spec /\ WF_vars(IdleTask)

\* GLib calls a timeout_add callback again every 200 ms for as long as it
\* returns True: a scheduled polling task always gets its next tick.
PollFairSpec == Spec /\ WF_vars(Tick)

\* ================================================================== claims
Outs == 1..Len(out)
IsCmd(c, name) == c.k = "cmd" /\ c.name = name
IsUi(c, name) == c.k = "ui" /\ c.name = name
Alive == {h \in Handles : engine[h].alive}
PositionDelivered == \E i \in Outs : IsUi(out[i], "update_progress")

\* C1: at most one playbin is alive (made and not yet set to NULL) in any
\* reachable state, it is the one self.playbin holds, and a do_play that
\* finds a playbin sets it to NULL before it makes the new one.
C1_AtMostOneAlive ==
    /\ Cardinality(Alive) <= 1
    /\ \A h \in Alive : h = playbin
    /\ lastOp = "do_play" =>
          \A i, j \in Outs :
             IsCmd(out[i], "set_state") /\ out[i].s = "NULL" /\ IsCmd(out[j], "make")
                => i < j

\* a do_play that found a playbin: the old one was set to NULL, one is alive
C1_Witness ==
    /\ lastOp = "do_play"
    /\ \E i \in Outs : IsCmd(out[i], "set_state") /\ out[i].s = "NULL"
    /\ Cardinality(Alive) = 1

\* C2: on_play (async-done) schedules do_update_time every 200 ms; a tick
\* that finds a playbin delivers one update_progress and stays scheduled;
\* once do_stop has emptied self.playbin, no step delivers update_progress,
\* and a tick that finds no playbin delivers nothing and is not run again.
C2_PollingUntilStop ==
    [][ /\ lastOp' = "on_play" =>
              /\ timers' = timers + 1
              /\ \E i \in 1..Len(out') :
                    /\ out'[i].k = "sched" /\ out'[i].name = "timeout_add"
                    /\ out'[i].n = 200
        /\ (lastOp' = "do_update_time" /\ playbin # NoHandle) =>
              /\ Cardinality({i \in 1..Len(out') : IsUi(out'[i], "update_progress")}) = 1
              /\ timers' = timers
        /\ (lastOp' = "do_update_time" /\ playbin = NoHandle) =>
              /\ out' = <<>>
              /\ timers' = timers - 1
        /\ (\E i \in 1..Len(out') : IsUi(out'[i], "update_progress")) =>
              lastOp' = "do_update_time" /\ playbin # NoHandle
      ]_vars

\* the tick that follows a do_stop: nothing delivered, the task is gone
C2_Witness ==
    lastOp = "do_update_time" /\ playbin = NoHandle /\ out = <<>> /\ timers = 0

\* C3: a polling task is at work (scheduled, and its next tick will poll) if
\* and only if self.playbin holds a playbin that has received async-done.
\* The time between do_stop and the tick that ends the task is not counted.
C3_PollingIffAsyncDone ==
    (timers > 0 /\ playbin # NoHandle)
       <=> (playbin # NoHandle /\ engine[playbin].asyncDone)

\* C4: at most one do_update_time task is scheduled at any time.
C4_AtMostOnePollingTask == timers <= 1

\* C5: do_stop raises nothing and leaves self.playbin empty and is_playing
\* false; with self.playbin already empty it gives no command and changes
\* nothing.
C5_StopIdempotent ==
    [][ lastOp' = "do_stop" =>
           /\ playbin' = NoHandle
           /\ ~is_playing'
           /\ \A i \in 1..Len(out') : out'[i].k # "raise"
           /\ playbin = NoHandle =>
                 /\ out' = <<>>
                 /\ UNCHANGED <<playbin, muted, uri, engine, idle, timers>>
      ]_vars

\* a do_stop that found no playbin
C5_Witness == lastOp = "do_stop" /\ out = <<>> /\ playbin = NoHandle

\* C6: a duration update, a polling tick or a window-handle callback that
\* runs when self.playbin is empty raises nothing, gives no command and
\* forwards nothing.
C6_CallbacksNullSafe ==
    (lastOp \in {"do_update_duration", "do_update_time", "idle_set_window_handle"}
       /\ playbin = NoHandle) => out = <<>>

\* C7: no play, pause, seek or mute command is given while self.playbin is
\* empty, and do_play_pause, do_set_time and mute with self.playbin empty
\* give no command, raise nothing and leave is_playing false.
C7_NoCommandWithoutHandle ==
    /\ \A i \in Outs :
          (\/ IsCmd(out[i], "set_state") /\ out[i].s \in {"PLAYING", "PAUSED"}
           \/ IsCmd(out[i], "seek_simple")
           \/ IsCmd(out[i], "set_mute"))
          => out[i].slot # NoHandle
    /\ (lastOp \in {"do_play_pause", "do_set_time", "mute"} /\ playbin = NoHandle)
          => out = <<>> /\ ~is_playing

\* C8: muted is FALSE at first and only mute() changes it; every do_play
\* gives the playbin it makes exactly one set_mute, with the stored muted
\* value, before it sets it to PLAYING.
C8_MuteSurvivesCreation ==
    /\ muted = FALSE
    /\ [][ /\ muted' # muted => lastOp' = "mute"
           /\ lastOp' = "do_play" =>
                 /\ \E i, j \in 1..Len(out') :
                       /\ i < j
                       /\ IsCmd(out'[i], "set_mute") /\ out'[i].b = muted
                       /\ IsCmd(out'[j], "set_state") /\ out'[j].s = "PLAYING"
                       /\ out'[i].h = playbin' /\ out'[j].h = playbin'
                 /\ Cardinality({i \in 1..Len(out') : IsCmd(out'[i], "set_mute")}) = 1
                 /\ engine'[playbin'].mute = muted
         ]_vars

\* a do_play over an existing playbin, with muted set: the new one is muted
C8_Witness ==
    /\ lastOp = "do_play"
    /\ muted
    /\ engine[playbin].mute
    /\ \E i \in Outs : IsCmd(out[i], "set_state") /\ out[i].s = "NULL"

\* C9: a do_hide put on the main loop by an end-of-stream message eventually
\* runs; it tells the UI that playback finished and leaves self.playbin
\* empty and is_playing false, and no position is delivered while
\* self.playbin is empty.
HidePending == \E i \in 1..Len(idle) : idle[i].fn = "do_hide"
C9_EosHides ==
    /\ HidePending ~> (lastOp = "do_hide")
    /\ [](lastOp = "do_hide" =>
             /\ playbin = NoHandle
             /\ ~is_playing
             /\ \E i \in Outs : IsUi(out[i], "on_finished"))
    /\ [](playbin = NoHandle => ~PositionDelivered)

\* do_hide stopped the playbin that reported end of stream
C9_Witness ==
    /\ lastOp = "do_hide"
    /\ \E i \in Outs : IsCmd(out[i], "set_state") /\ out[i].s = "NULL"
    /\ \E i \in Outs : IsUi(out[i], "on_finished")

\* C10: update_range is called only by do_update_duration, right after the
\* duration query, with max(0, ns) nanoseconds as seconds: never negative,
\* and exactly 0 for a negative answer.
C10_DurationNeverNegative ==
    \A i \in Outs :
       IsUi(out[i], "update_range") =>
          /\ lastOp = "do_update_duration"
          /\ i > 1 /\ out[i - 1].k = "query" /\ out[i - 1].name = "duration"
          /\ out[i].v.sec >= 0
          /\ out[i].v.nano >= 0 /\ out[i].v.nano < NsPerSec
          /\ out[i].v.sec * NsPerSec + out[i].v.nano
                = (IF out[i - 1].n < 0 THEN 0 ELSE out[i - 1].n)

\* a duration query answered -1, forwarded as 0
C10_Witness ==
    /\ lastOp = "do_update_duration"
    /\ Len(out) = 2
    /\ out[1].k = "query" /\ out[1].n = -1
    /\ IsUi(out[2], "update_range") /\ out[2].v = [sec |-> 0, nano |-> 0]

\* C11: the handlers the engine's messages run (the sync-message handler and
\* the bus callbacks) write none of self.playbin, self.muted, self.uri and
\* give no engine command: they only put tasks on the main loop or log.  So
\* every such write and every command is made by a call, task or tick of the
\* UI thread.
EngineSide == {"on_sync_message", "on_eos", "on_error", "on_play", "on_duration_changed"}
C11_SingleWriter ==
    [][ lastOp' \in EngineSide =>
           /\ UNCHANGED <<playbin, muted, uri>>
           /\ \A i \in 1..Len(out') : out'[i].k \in {"recv", "sched", "log"}
      ]_vars

\* the sync-message handler answered a window-handle request by a task
C11_Witness ==
    /\ lastOp = "on_sync_message"
    /\ \E i \in Outs : out[i].k = "sched" /\ out[i].s = "set_window_handle"
    /\ idle # <<>>

\* C12: a do_hide put on the main loop by the end of stream of a playbin that
\* self.playbin no longer holds, run while self.playbin holds another one,
\* leaves that one alone: no command, no on_finished, self.playbin kept.
C12_StaleHideCancelled ==
    [][ (lastOp' = "do_hide" /\ playbin # NoHandle /\ Head(idle).h # playbin) =>
           /\ playbin' = playbin
           /\ \A i \in 1..Len(out') : out'[i].k \notin {"cmd", "ui"}
      ]_vars

\* C13: do_play_pause with a playbin gives it exactly one set_state: PAUSED
\* if its state is PLAYING at that moment, PLAYING otherwise (also while the
\* change to PLAYING asked by do_play is still under way); self.playbin and
\* the playbin's life are untouched.
C13_ToggleOneCommand ==
    [][ (lastOp' = "do_play_pause" /\ playbin # NoHandle) =>
           /\ Len(out') = 1
           /\ IsCmd(out'[1], "set_state")
           /\ out'[1].h = playbin
           /\ out'[1].s = (IF engine[playbin].cur = "PLAYING" THEN "PAUSED" ELSE "PLAYING")
           /\ playbin' = playbin
           /\ engine'[playbin].alive
           /\ Alive' = Alive
      ]_vars

\* a toggle that found the playbin PLAYING and paused it
C13_Witness ==
    /\ lastOp = "do_play_pause"
    /\ playbin # NoHandle
    /\ Len(out) = 1 /\ out[1].s = "PAUSED"
    /\ engine[playbin].cur = "PAUSED"

\* C14: set_file only stores 'file://' + filepath in self.uri: it gives no
\* command and leaves self.playbin, self.muted, the playbins, the main loop's
\* tasks and the polling tasks as they were; the value stored depends on the
\* path alone, so storing the same path again changes nothing; nothing but
\* set_file writes self.uri, so do_stop keeps it; and do_play gives the new
\* playbin the uri stored at that moment.
C14_SetFileOnlyStores ==
    [][ /\ lastOp' = "set_file" =>
              /\ out' = <<>>
              /\ UNCHANGED <<playbin, muted, engine, idle, timers>>
              /\ \E p \in Paths : uri' = "file://" \o p
              /\ lastOp = "set_file" /\ uri' = uri => UNCHANGED <<playbin, muted, uri, engine, idle, timers, out>>
        /\ uri' # uri => lastOp' = "set_file"
        /\ lastOp' = "do_play" =>
              \E i \in 1..Len(out') :
                  /\ IsCmd(out'[i], "set_uri")
                  /\ out'[i].h = playbin'
                  /\ out'[i].s = uri
      ]_vars

\* set_file called during playback, with the polling task at work
C14_Witness ==
    /\ lastOp = "set_file"
    /\ uri = "file:///tmp/b.mp4"
    /\ playbin # NoHandle /\ engine[playbin].cur = "PLAYING"
    /\ timers > 0

\* C15: an error message of the bus changes nothing: self.playbin,
\* self.muted, self.uri, the playbins, the tasks of the main loop and the
\* polling tasks are as before; the handler only logs.
C15_ErrorOnlyLogs ==
    [][ lastOp' = "on_error" =>
           /\ UNCHANGED <<playbin, muted, uri, engine, idle, timers>>
           /\ \A i \in 1..Len(out') : out'[i].k = "log"
      ]_vars

\* an error logged during playback, polling still scheduled
C15_Witness ==
    /\ lastOp = "on_error"
    /\ Len(out) = 1 /\ out[1].k = "log"
    /\ playbin # NoHandle /\ engine[playbin].alive
    /\ timers > 0

\* C16: on_sync_message, asked for the window handle with a realized window,
\* has called set_window_handle on the playbin when it returns, and has left
\* no task for it on the main loop.
C16_AnsweredSynchronously ==
    (lastOp = "on_sync_message" /\ out[1].name = "prepare-window-handle" /\ out[1].b) =>
        /\ \E i \in Outs : IsCmd(out[i], "set_window_handle")
        /\ \A i \in Outs : out[i].k # "sched"

\* C17: on_sync_message asked for the window handle while get_window() is
\* None only logs: no set_window_handle is called or put on the main loop,
\* nothing is raised, and self.playbin, the playbins and the polling tasks
\* are as before.  Any other sync message changes nothing and does nothing.
C17_NoWindowUnanswered ==
    [][ lastOp' = "on_sync_message" =>
           /\ (out'[1].name = "prepare-window-handle" /\ ~out'[1].b) =>
                 /\ \A i \in 2..Len(out') : out'[i].k = "log"
                 /\ UNCHANGED <<playbin, muted, uri, engine, idle, timers>>
           /\ out'[1].name # "prepare-window-handle" =>
                 /\ Len(out') = 1
                 /\ UNCHANGED <<playbin, muted, uri, engine, idle, timers>>
      ]_vars

\* the request came with no window: logged, nothing on the main loop
C17_Witness ==
    /\ lastOp = "on_sync_message"
    /\ out[1].name = "prepare-window-handle" /\ ~out[1].b
    /\ Len(out) = 2 /\ out[2].k = "log"
    /\ idle = <<>>

\* C18: the set_mute that mute() put on the main loop is never called on a
\* playbin that do_stop has released since: when it runs, its playbin is the
\* one self.playbin holds.
C18_NoMuteOnReleased ==
    lastOp = "idle_set_mute" => \A i \in Outs : out[i].h = out[i].slot

C20_PollingTerminates ==
    (playbin = NoHandle /\ timers > 0) ~> (timers = 0 \/ playbin # NoHandle)

\* with two polling tasks scheduled and no playbin, a tick has ended one
C20_Witness ==
    lastOp = "do_update_time" /\ playbin = NoHandle /\ out = <<>> /\ timers = 1

====
